---- MODULE Spec2Model ----
(***************************************************************************)
(* Model of pkg/syncer/syncer.go: the Syncer that reconciles the lists,    *)
(* the watchlist and the ratings of a source service (IMDb) into a mirror  *)
(* service (Trakt).  One process builds a Syncer (NewSyncer) and calls Run *)
(* (hydrate, syncLists, syncRatings).  Every remote call is one step; the  *)
(* calls issued in the current run are recorded in `calls`.                *)
(***************************************************************************)
EXTENDS Integers, Sequences, FiniteSets, TLC

VARIABLES
    env,            \* the environment: the set of variables that are set
    listIdsString,  \* the value of IMDB_LIST_IDS, a sequence of characters
    imdb,           \* the source service: lists, watchlist, ratings
    trakt,          \* the mirror service: lists, watchlist, ratings, history
    user,           \* Syncer.user: lists ([]DataPair) and ratings (DataPair)
    clients,        \* the clients the Syncer holds
    pc,             \* where the process is
    loc,            \* the locals of the function being executed
    calls,          \* the remote calls of the current run, in order
    err,            \* the error a fatal log reports (<<>>: none)
    run,            \* the number of the current run
    fresh           \* the current run started on a newly built Syncer

vars == <<env, listIdsString, imdb, trakt, user, clients, pc, loc, calls, err, run, fresh>>

(***************************************************************************)
(* Bounds.                                                                 *)
(***************************************************************************)
MaxRuns == 2

(***************************************************************************)
(* Environment variables (syncer.go:16-25).                                *)
(***************************************************************************)
EnvVarKeyCookieAtMain == "IMDB_COOKIE_AT_MAIN"
EnvVarKeyCookieUbidMain == "IMDB_COOKIE_UBID_MAIN"
EnvVarKeyListIds == "IMDB_LIST_IDS"
EnvVarKeyUserId == "IMDB_USER_ID"
EnvVarKeyClientId == "TRAKT_CLIENT_ID"
EnvVarKeyClientSecret == "TRAKT_CLIENT_SECRET"
EnvVarKeyPassword == "TRAKT_PASSWORD"
EnvVarKeyUsername == "TRAKT_USERNAME"

EnvVarKeys ==
    { EnvVarKeyCookieAtMain, EnvVarKeyCookieUbidMain, EnvVarKeyListIds, EnvVarKeyUserId,
      EnvVarKeyClientId, EnvVarKeyClientSecret, EnvVarKeyPassword, EnvVarKeyUsername }

requiredEnvVarKeys ==
    << EnvVarKeyListIds, EnvVarKeyCookieAtMain, EnvVarKeyCookieUbidMain, EnvVarKeyClientId,
       EnvVarKeyClientSecret, EnvVarKeyUsername, EnvVarKeyPassword >>

Range(s) == { s[i] : i \in DOMAIN s }

\* validateEnvVars stopping at the first key that is not set.
missingEnvVars_FirstOnly(e) ==
    LET all == SelectSeq(requiredEnvVarKeys, LAMBDA k : k \notin e)
    IN  IF all = << >> THEN << >> ELSE << Head(all) >>

\* validateEnvVars: the required keys that are not set (os.LookupEnv), in the order
\* of the list; << >> is the nil error.
missingEnvVars(e) == SelectSeq(requiredEnvVarKeys, LAMBDA k : k \notin e)

(***************************************************************************)
(* Strings as sequences of characters: strings.Split and                   *)
(* strings.ReplaceAll as NewSyncer uses them (syncer.go:72-79).            *)
(***************************************************************************)
RECURSIVE Split(_, _)
Split(s, sep) ==
    IF \A i \in DOMAIN s : s[i] # sep
        THEN << s >>
        ELSE LET p == CHOOSE i \in DOMAIN s : s[i] = sep /\ \A j \in 1..(i - 1) : s[j] # sep
             IN  << SubSeq(s, 1, p - 1) >> \o Split(SubSeq(s, p + 1, Len(s)), sep)

ReplaceAllSpaces(s) == SelectSeq(s, LAMBDA c : c # " ")

StrEmpty == << >>
StrAll == << "a", "l", "l" >>

(***************************************************************************)
(* entities: items, pairings and their difference.                         *)
(***************************************************************************)
TraktItemTypeMovie == "movie"
TraktItemTypeShow == "show"
TraktItemTypeEpisode == "episode"

\* A *int or *string: << >> is nil, << v >> points to v.
Nil == << >>
Ptr(v) == << v >>

\* time.Time as a wall-clock hour and a zone offset; UTC() moves the hour to
\* offset 0 and String() prints hour and zone.
TimeUTC(t) == [ wall |-> (t.wall - t.zone + 24) % 24, zone |-> 0 ]
TimeString(t) == << t.wall, t.zone >>
ZeroTime == [ wall |-> 0, zone |-> 0 ]

ZeroSpec == [ Imdb |-> "", Rating |-> Nil, RatedAt |-> Nil ]

ZeroTraktItem ==
    [ Type |-> "", Rating |-> 0, Movie |-> ZeroSpec, Show |-> ZeroSpec, Episode |-> ZeroSpec ]

\* The TraktItem of type ty whose typed part is spec.
TypedItem(ty, rating, spec) ==
    CASE ty = TraktItemTypeMovie -> [ ZeroTraktItem EXCEPT !.Type = ty, !.Rating = rating, !.Movie = spec ]
      [] ty = TraktItemTypeShow -> [ ZeroTraktItem EXCEPT !.Type = ty, !.Rating = rating, !.Show = spec ]
      [] ty = TraktItemTypeEpisode -> [ ZeroTraktItem EXCEPT !.Type = ty, !.Rating = rating, !.Episode = spec ]
      [] OTHER -> [ ZeroTraktItem EXCEPT !.Type = ty, !.Rating = rating ]

\* The typed part of a TraktItem (the zero spec for an unknown type).
SpecOf(t) ==
    CASE t.Type = TraktItemTypeMovie -> t.Movie
      [] t.Type = TraktItemTypeShow -> t.Show
      [] t.Type = TraktItemTypeEpisode -> t.Episode
      [] OTHER -> ZeroSpec

\* TraktItem.GetItemId: << id >>, or << >> for an item of no known type (an error).
GetItemId(t) ==
    IF t.Type \in { TraktItemTypeMovie, TraktItemTypeShow, TraktItemTypeEpisode }
        THEN << SpecOf(t).Imdb >>
        ELSE << >>

\* The key of a mirror item: the source identifier its typed part carries.
TraktKey(t) == SpecOf(t).Imdb

TraktKeys(list) == { TraktKey(list[i]) : i \in DOMAIN list }
ImdbKeys(list) == { list[i].Id : i \in DOMAIN list }

\* The mirror item Difference builds for a source item that is to be added.
ItemToAdd(x) ==
    TypedItem(x.TitleType, 0,
              [ Imdb |-> x.Id,
                Rating |-> x.Rating,
                RatedAt |-> IF x.Rating # Nil THEN Ptr(TimeString(TimeUTC(x.RatingDate))) ELSE Nil ])

\* The additions of Difference: a mirror item per source item.
ItemsToAdd(items) == [ i \in DOMAIN items |-> ItemToAdd(items[i]) ]

\* DataPair.Difference.
Difference(dp) ==
    [ add |-> ItemsToAdd(SelectSeq(dp.ImdbList, LAMBDA x : x.Id \notin TraktKeys(dp.TraktList))),
      remove |-> SelectSeq(dp.TraktList, LAMBDA y : TraktKey(y) \notin ImdbKeys(dp.ImdbList)) ]

ZeroDataPair ==
    [ ImdbList |-> << >>, ImdbListId |-> StrEmpty, ImdbListName |-> "",
      TraktList |-> << >>, TraktListId |-> "", IsWatchlist |-> FALSE ]

\* client.FormatTraktListName: the slug of a display name, on the names of the model.
FormatTraktListName(name) ==
    CASE name = "My List" -> "my-list"
      [] name = "my list" -> "my-list"
      [] name = "Other" -> "other"
      [] OTHER -> ""

(***************************************************************************)
(* The two services.  The source is read only.  The mirror applies every   *)
(* write it accepts: lists are keyed by slug, items by their key.          *)
(***************************************************************************)
IdA == << "A" >>
IdB == << "B" >>
WatchlistId == << "W" >>

TypeOfId(id) ==
    CASE id = "tt1" -> TraktItemTypeMovie
      [] id = "tt2" -> TraktItemTypeShow
      [] id = "tt3" -> TraktItemTypeEpisode
      [] OTHER -> ""

\* A source item as a list or the watchlist holds it.
ImdbItem(id) == [ Id |-> id, TitleType |-> TypeOfId(id), Rating |-> Nil, RatingDate |-> ZeroTime ]

\* A source item as the ratings hold it.
ImdbRated(id, ty, rating, date) == [ Id |-> id, TitleType |-> ty, Rating |-> rating, RatingDate |-> date ]

\* A mirror item as the mirror returns it: its rating at the top, its ids in the typed part.
MirrorItem(ty, id, rating) == TypedItem(ty, rating, [ Imdb |-> id, Rating |-> Nil, RatedAt |-> Nil ])

\* What the mirror stores for an item it is sent.
Stored(t) ==
    LET sp == SpecOf(t)
    IN  MirrorItem(t.Type, sp.Imdb, IF sp.Rating # Nil THEN sp.Rating[1] ELSE 0)

\* Items added to a mirror collection: those whose key it does not hold yet.
RECURSIVE AddItems(_, _)
AddItems(list, items) ==
    IF items = << >> THEN list
    ELSE LET t == Head(items)
         IN  AddItems(IF TraktKey(t) = "" \/ TraktKey(t) \in TraktKeys(list) THEN list
                      ELSE Append(list, Stored(t)),
                      Tail(items))

RemoveItems(list, items) == SelectSeq(list, LAMBDA y : TraktKey(y) \notin TraktKeys(items))

\* The mirror's rating-add is an upsert.
RECURSIVE UpsertRatings(_, _)
UpsertRatings(list, items) ==
    IF items = << >> THEN list
    ELSE LET t == Head(items)
             k == TraktKey(t)
             next == IF k = "" THEN list
                     ELSE IF k \in TraktKeys(list)
                          THEN [ i \in DOMAIN list |-> IF TraktKey(list[i]) = k THEN Stored(t) ELSE list[i] ]
                          ELSE Append(list, Stored(t))
         IN  UpsertRatings(next, Tail(items))

Slugs == { "my-list", "other" }

\* The lists of the mirror as ListsGet returns them: name and slug.
MirrorLists(t) ==
    LET one(slug) == IF t.lists[slug] = << >> THEN << >>
                     ELSE << [ Name |-> t.lists[slug][1].Name, Ids |-> [ Slug |-> slug ] ] >>
    IN  one("my-list") \o one("other")

\* The source's answer to ListItemsGet: << >> is not found.
ImdbListLookup(id) == IF id \in DOMAIN imdb.lists THEN imdb.lists[id] ELSE << >>

\* The source's answer to ListsScrape: one pairing per list of the account.
ScrapedPair(id) ==
    IF imdb.lists[id] = << >> THEN << >>
    ELSE << [ ZeroDataPair EXCEPT !.ImdbList = imdb.lists[id][1].Items,
                                   !.ImdbListId = id,
                                   !.ImdbListName = imdb.lists[id][1].Name,
                                   !.TraktListId = FormatTraktListName(imdb.lists[id][1].Name) ] >>

ListsScrape == ScrapedPair(IdA) \o ScrapedPair(IdB)

(***************************************************************************)
(* The states a run can start from.                                        *)
(***************************************************************************)
ListIdStrings ==
    { StrEmpty, StrAll, << "A" >>, << "B", ",", "A" >>, << "A", ",", " ", "A", ",", "B" >> }

ImdbItems(ids) == [ i \in DOMAIN ids |-> ImdbItem(ids[i]) ]
MirrorItems(ids) == [ i \in DOMAIN ids |-> MirrorItem(TypeOfId(ids[i]), ids[i], 0) ]

SourceList(name, ids) == << [ Name |-> name, Items |-> ImdbItems(ids) ] >>
MirrorList(name, ids) ==
    << [ Name |-> name, Items |-> MirrorItems(ids) ] >>

ImdbListsA == { << >>, SourceList("My List", << "tt1" >>), SourceList("My List", << "tt1", "tt2" >>) }
ImdbListsB ==
    { << >>, SourceList("My List", << "tt2" >>), SourceList("Other", << "tt2" >>),
      SourceList("my list", << "tt2" >>) }
ImdbWatchlists == { << >>, << "tt1" >> }
TraktListsMyList == { << >>, MirrorList("My List", << "tt2" >>), MirrorList("my list", << "tt1" >>) }
TraktListsOther == { << >>, MirrorList("Other", << "tt1" >>) }
TraktWatchlists == { << >>, << "tt2" >> }

\* The list side of a start state: the identifiers given, the source's lists and
\* watchlist, the mirror's lists and watchlist.
ListWorlds ==
    [ ids : ListIdStrings, a : ImdbListsA, b : ImdbListsB, w : ImdbWatchlists,
      m : TraktListsMyList, o : TraktListsOther, tw : TraktWatchlists ]

SmallListWorlds ==
    [ ids : { StrAll, << "A" >> }, a : { SourceList("My List", << "tt1" >>) }, b : { << >> },
      w : { << >> }, m : { << >> }, o : { << >> }, tw : { << >> } ]

Here == [ wall |-> 10, zone |-> 0 ]
Abroad == [ wall |-> 10, zone |-> 2 ]

\* Per item: what the source's ratings hold (no entry, or one), what the mirror's
\* ratings hold, and the number of entries of the mirror's history.
ImdbRatings1 ==
    { << >>, << ImdbRated("tt1", TraktItemTypeMovie, Ptr(8), Here) >>,
      << ImdbRated("tt1", TraktItemTypeMovie, Ptr(9), Abroad) >> }
ImdbRatings2 ==
    { << >>, << ImdbRated("tt2", TraktItemTypeShow, Ptr(9), Here) >>,
      << ImdbRated("tt2", TraktItemTypeShow, Nil, ZeroTime) >> }
ImdbRatings3 ==
    { << >>, << ImdbRated("tt3", TraktItemTypeEpisode, Ptr(9), Abroad) >>,
      << ImdbRated("tt3", "", Ptr(9), Here) >> }
TraktRatings1 == { << >>, << MirrorItem(TraktItemTypeMovie, "tt1", 8) >> }
TraktRatings2 == { << >>, << MirrorItem(TraktItemTypeShow, "tt2", 8) >> }
TraktRatings3 == { << >>, << MirrorItem(TraktItemTypeEpisode, "tt3", 9) >> }

RatingWorlds ==
    [ i1 : ImdbRatings1, i2 : ImdbRatings2, i3 : ImdbRatings3,
      t1 : TraktRatings1, t2 : TraktRatings2, t3 : TraktRatings3,
      h1 : { 0, 1 }, h2 : { 0 }, h3 : { 1 } ]

SmallRatingWorlds ==
    [ i1 : { << >>, << ImdbRated("tt1", TraktItemTypeMovie, Ptr(8), Here) >> }, i2 : { << >> }, i3 : { << >> },
      t1 : { << >> }, t2 : { << >> }, t3 : { << >> }, h1 : { 0 }, h2 : { 0 }, h3 : { 1 } ]

\* Go's zero values of the Syncer's state and of the locals.
ZeroUser == [ lists |-> << >>, ratings |-> ZeroDataPair ]
ZeroLoc ==
    [ k |-> 0, n |-> 0, uniqueListNames |-> { }, lists |-> << >>, imdbRatings |-> << >>,
      traktLists |-> << >>, history |-> << >> ]
NoErr == [ phase |-> "", missing |-> << >> ]

InitWith(e, lw, rw) ==
    /\ env = e
    /\ listIdsString = lw.ids
    /\ imdb = [ lists |-> (IdA :> lw.a) @@ (IdB :> lw.b),
                watchlist |-> ImdbItems(lw.w),
                ratings |-> rw.i1 \o rw.i2 \o rw.i3 ]
    /\ trakt = [ lists |-> ("my-list" :> lw.m) @@ ("other" :> lw.o),
                 watchlist |-> MirrorItems(lw.tw),
                 ratings |-> rw.t1 \o rw.t2 \o rw.t3,
                 history |-> ("tt1" :> rw.h1) @@ ("tt2" :> rw.h2) @@ ("tt3" :> rw.h3) ]
    /\ user = ZeroUser
    /\ clients = { }
    /\ pc = "validate"
    /\ loc = ZeroLoc
    /\ calls = << >>
    /\ err = NoErr
    /\ run = 1
    /\ fresh = TRUE

\* Every environment with the smallest services; with every variable set, every
\* list side with a small rating side and every rating side with a small list side.
Init ==
    \/ \E e \in SUBSET EnvVarKeys, lw \in SmallListWorlds, rw \in SmallRatingWorlds :
          /\ e # EnvVarKeys
          /\ lw.ids = StrAll
          /\ rw.i1 = << >>
          /\ InitWith(e, lw, rw)
    \/ \E lw \in ListWorlds, rw \in SmallRatingWorlds : InitWith(EnvVarKeys, lw, rw)
    \/ \E lw \in SmallListWorlds, rw \in RatingWorlds : InitWith(EnvVarKeys, lw, rw)

(***************************************************************************)
(* Remote calls.                                                           *)
(***************************************************************************)
\* What a call can answer besides what the service's state decides.
Faults == { "ok", "err", "notfound" }
FaultsOfLookup == { "ok", "err" }

\* The record of one remote call: the line of syncer.go that issues it, the
\* service, the operation, its arguments, the items it carries and its answer.
Call(line, svc, op, arg, items, res) ==
    [ line |-> line, svc |-> svc, op |-> op, arg |-> arg, items |-> items, res |-> res ]

\* The error is logged and the process goes on where it is.
Fatal_Continue(phase) ==
    /\ pc' = pc
    /\ err' = [ phase |-> phase, missing |-> << >> ]

\* logger.Fatal: the process ends.
Fatal(phase) ==
    /\ pc' = "fatal"
    /\ err' = [ phase |-> phase, missing |-> << >> ]

\* A loop left after its first iteration.
LoopPc_Break(k, n, body, exit) == exit

\* The place after iteration k of a loop over n elements.
LoopPc(k, n, body, exit) == IF k > n THEN exit ELSE body

(***************************************************************************)
(* NewSyncer (syncer.go:39-81).                                            *)
(***************************************************************************)
\* syncer.go:44-46: validateEnvVars, fatal when a required variable is not set.
ValidateEnvVars ==
    /\ pc = "validate"
    /\ IF missingEnvVars(env) # << >>
          THEN /\ pc' = "fatal"
               /\ err' = [ phase |-> "validate", missing |-> missingEnvVars(env) ]
          ELSE /\ pc' = "newImdbClient"
               /\ err' = err
    /\ UNCHANGED << env, listIdsString, imdb, trakt, user, clients, loc, calls, run, fresh >>

\* syncer.go:47-58: client.NewImdbClient, which may fail.
NewImdbClient ==
    /\ pc = "newImdbClient"
    /\ \E ok \in BOOLEAN :
          IF ok THEN /\ clients' = clients \cup { "imdb" }
                     /\ pc' = "newTraktClient"
                     /\ err' = err
                ELSE /\ Fatal("newImdbClient")
                     /\ clients' = clients
    /\ UNCHANGED << env, listIdsString, imdb, trakt, user, loc, calls, run, fresh >>

\* syncer.go:72 without the test for "all": the sentinel is taken for an identifier.
ParsedLists_NoSentinel(str) ==
    IF str # StrEmpty
        THEN LET imdbListIds == Split(str, ",")
             IN  [ i \in DOMAIN imdbListIds |->
                     [ ZeroDataPair EXCEPT !.ImdbListId = ReplaceAllSpaces(imdbListIds[i]) ] ]
        ELSE << >>

\* The pairings NewSyncer builds from the value of IMDB_LIST_IDS (syncer.go:72-79).
ParsedLists(str) ==
    IF str # StrEmpty /\ str # StrAll
        THEN LET imdbListIds == Split(str, ",")
             IN  [ i \in DOMAIN imdbListIds |->
                     [ ZeroDataPair EXCEPT !.ImdbListId = ReplaceAllSpaces(imdbListIds[i]) ] ]
        ELSE << >>

\* syncer.go:59-80: client.NewTraktClient, which may fail, then the list identifiers.
NewTraktClient ==
    /\ pc = "newTraktClient"
    /\ \E ok \in BOOLEAN :
          IF ok THEN /\ clients' = clients \cup { "trakt" }
                     /\ user' = [ user EXCEPT !.lists = user.lists \o ParsedLists(listIdsString) ]
                     /\ pc' = "hydrate"
                     /\ err' = err
                ELSE /\ Fatal("newTraktClient")
                     /\ UNCHANGED << clients, user >>
    /\ UNCHANGED << env, listIdsString, imdb, trakt, loc, calls, run, fresh >>

(***************************************************************************)
(* hydrate (syncer.go:96-156) and cleanupLists (syncer.go:289-317).        *)
(***************************************************************************)
\* syncer.go:97-101: cleanup when the Syncer holds pairings, discovery otherwise.
HydrateBegin ==
    /\ pc = "hydrate"
    /\ IF Len(user.lists) # 0
          THEN /\ pc' = "cleanup"
               /\ loc' = [ ZeroLoc EXCEPT !.k = 1,
                                          !.lists = [ i \in 1..Len(user.lists) |-> ZeroDataPair ] ]
          ELSE /\ pc' = "listsScrape"
               /\ loc' = ZeroLoc
    /\ UNCHANGED << env, listIdsString, imdb, trakt, user, clients, calls, err, run, fresh >>

\* syncer.go:294: an identifier the loop has seen before is skipped.
SeenBefore_Never(unique, id) == FALSE

SeenBefore(unique, id) == id \in unique

\* syncer.go:301: cleanupLists silences a not-found answer of the source.
CleanupSilences_Never(res) == FALSE

CleanupSilences(res) == res = "notfound"

\* syncer.go:131: hydrate silences a not-found answer of the mirror.
HydrateSilences_Never(res) == FALSE

HydrateSilences(res) == res = "notfound"

\* An iteration of cleanupLists that does not move to the next pairing.
CleanupNext_Stay(l) ==
    /\ loc' = l
    /\ user' = user
    /\ pc' = "cleanup"
    /\ err' = err

\* The end of an iteration of cleanupLists: the next one, or syncer.go:315-316.
CleanupNext(l) ==
    /\ loc' = [ l EXCEPT !.k = l.k + 1 ]
    /\ IF l.k + 1 > Len(user.lists)
          THEN /\ user' = [ user EXCEPT !.lists = SubSeq(l.lists, 1, l.n) ]
               /\ pc' = "watchlistGet"
          ELSE /\ user' = user
               /\ pc' = "cleanup"
    /\ err' = err

\* syncer.go:293-296: a duplicate identifier.
CleanupSkipDuplicate ==
    /\ pc = "cleanup"
    /\ SeenBefore(loc.uniqueListNames, user.lists[loc.k].ImdbListId)
    /\ CleanupNext(loc)
    /\ UNCHANGED << env, listIdsString, imdb, trakt, clients, calls, run, fresh >>

\* syncer.go:297-314: the source's ListItemsGet for a new identifier.
CleanupListItemsGet ==
    /\ pc = "cleanup"
    /\ ~ SeenBefore(loc.uniqueListNames, user.lists[loc.k].ImdbListId)
    /\ \E f \in FaultsOfLookup :
          LET id == user.lists[loc.k].ImdbListId
              found == ImdbListLookup(id)
              res == IF f # "ok" THEN f ELSE IF found = << >> THEN "notfound" ELSE "ok"
              seen == [ loc EXCEPT !.uniqueListNames = loc.uniqueListNames \cup { id } ]
          IN  /\ calls' = Append(calls, Call(298, "imdb", "ListItemsGet", << id >>, << >>, res))
              /\ IF res = "ok"
                    THEN CleanupNext([ seen EXCEPT
                            !.lists[loc.n + 1] =
                                [ ZeroDataPair EXCEPT !.ImdbList = found[1].Items,
                                                      !.ImdbListId = id,
                                                      !.ImdbListName = found[1].Name,
                                                      !.TraktListId = FormatTraktListName(found[1].Name) ],
                            !.n = loc.n + 1 ])
                    ELSE IF CleanupSilences(res)
                        THEN CleanupNext(seen)
                        ELSE /\ Fatal("hydrate")
                             /\ loc' = seen
                             /\ user' = user
    /\ UNCHANGED << env, listIdsString, imdb, trakt, clients, run, fresh >>

\* syncer.go:102-106: discovery of every list of the account.
HydrateListsScrape ==
    /\ pc = "listsScrape"
    /\ \E f \in Faults :
          /\ calls' = Append(calls, Call(102, "imdb", "ListsScrape", << >>, << >>, f))
          /\ IF f = "ok"
                THEN /\ user' = [ user EXCEPT !.lists = ListsScrape ]
                     /\ pc' = "watchlistGet"
                     /\ err' = err
                ELSE /\ Fatal("hydrate")
                     /\ user' = user
    /\ UNCHANGED << env, listIdsString, imdb, trakt, clients, loc, run, fresh >>

\* The pairing of the watchlist (syncer.go:112-117).
WatchlistPair_NotMarked(id, items) ==
    [ ZeroDataPair EXCEPT !.ImdbList = items, !.ImdbListId = id, !.ImdbListName = "watchlist" ]

WatchlistPair(id, items) ==
    [ ZeroDataPair EXCEPT !.ImdbList = items, !.ImdbListId = id, !.ImdbListName = "watchlist",
                          !.IsWatchlist = TRUE ]

\* syncer.go:108-117: the source's watchlist, appended to the pairings.
HydrateWatchlistGet ==
    /\ pc = "watchlistGet"
    /\ \E f \in Faults :
          /\ calls' = Append(calls, Call(108, "imdb", "WatchlistGet", << >>, << >>, f))
          /\ IF f = "ok"
                THEN /\ user' = [ user EXCEPT
                                    !.lists = Append(user.lists, WatchlistPair(WatchlistId, imdb.watchlist)) ]
                     /\ loc' = [ loc EXCEPT !.k = 1 ]
                     /\ pc' = "hydrateLists"
                     /\ err' = err
                ELSE /\ Fatal("hydrate")
                     /\ UNCHANGED << user, loc >>
    /\ UNCHANGED << env, listIdsString, imdb, trakt, clients, run, fresh >>

\* syncer.go:120-127: the mirror's watchlist for the watchlist pairing.
HydrateWatchlistItemsGet ==
    /\ pc = "hydrateLists"
    /\ user.lists[loc.k].IsWatchlist
    /\ \E f \in Faults :
          /\ calls' = Append(calls, Call(121, "trakt", "WatchlistItemsGet", << loc.k >>,
                                      IF f = "ok" THEN trakt.watchlist ELSE << >>, f))
          /\ IF f = "ok"
                THEN /\ user' = [ user EXCEPT !.lists[loc.k].TraktList = trakt.watchlist ]
                     /\ loc' = [ loc EXCEPT !.k = loc.k + 1 ]
                     /\ pc' = LoopPc(loc.k + 1, Len(user.lists), "hydrateLists", "imdbRatingsGet")
                     /\ err' = err
                ELSE /\ Fatal("hydrate")
                     /\ UNCHANGED << user, loc >>
    /\ UNCHANGED << env, listIdsString, imdb, trakt, clients, run, fresh >>

\* syncer.go:128-141: the mirror's list for a named pairing; not found leads to ListAdd.
HydrateListItemsGet ==
    /\ pc = "hydrateLists"
    /\ ~ user.lists[loc.k].IsWatchlist
    /\ \E f \in FaultsOfLookup :
          LET id == user.lists[loc.k].TraktListId
              found == IF id \in DOMAIN trakt.lists THEN trakt.lists[id] ELSE << >>
              res == IF f # "ok" THEN f ELSE IF found = << >> THEN "notfound" ELSE "ok"
          IN  /\ calls' = Append(calls, Call(128, "trakt", "ListItemsGet", << loc.k, id >>,
                                          IF res = "ok" THEN found[1].Items ELSE << >>, res))
              /\ IF res = "ok"
                    THEN /\ user' = [ user EXCEPT !.lists[loc.k].TraktList = found[1].Items ]
                         /\ loc' = [ loc EXCEPT !.k = loc.k + 1 ]
                         /\ pc' = LoopPc(loc.k + 1, Len(user.lists), "hydrateLists", "imdbRatingsGet")
                         /\ err' = err
                    ELSE IF HydrateSilences(res)
                        THEN /\ pc' = "listAdd"
                             /\ err' = err
                             /\ UNCHANGED << user, loc >>
                        ELSE /\ Fatal("hydrate")
                             /\ UNCHANGED << user, loc >>
    /\ UNCHANGED << env, listIdsString, imdb, trakt, clients, run, fresh >>

\* syncer.go:133-137: the missing mirror list is created and the pairing starts empty.
HydrateListAdd ==
    /\ pc = "listAdd"
    /\ \E f \in Faults :
          LET id == user.lists[loc.k].TraktListId
              name == user.lists[loc.k].ImdbListName
          IN  /\ calls' = Append(calls, Call(133, "trakt", "ListAdd", << loc.k, id, name >>, << >>, f))
              /\ IF f = "ok"
                    THEN /\ trakt' = [ trakt EXCEPT !.lists[id] = << [ Name |-> name, Items |-> << >> ] >> ]
                         /\ user' = [ user EXCEPT !.lists[loc.k].TraktList = << >> ]
                         /\ loc' = [ loc EXCEPT !.k = loc.k + 1 ]
                         /\ pc' = LoopPc(loc.k + 1, Len(user.lists), "hydrateLists", "imdbRatingsGet")
                         /\ err' = err
                    ELSE /\ Fatal("hydrate")
                         /\ UNCHANGED << trakt, user, loc >>
    /\ UNCHANGED << env, listIdsString, imdb, clients, run, fresh >>

\* syncer.go:143-146: the source's ratings.
HydrateImdbRatingsGet ==
    /\ pc = "imdbRatingsGet"
    /\ \E f \in Faults :
          /\ calls' = Append(calls, Call(143, "imdb", "RatingsGet", << >>, << >>, f))
          /\ IF f = "ok"
                THEN /\ loc' = [ loc EXCEPT !.imdbRatings = imdb.ratings ]
                     /\ pc' = "traktRatingsGet"
                     /\ err' = err
                ELSE /\ Fatal("hydrate")
                     /\ loc' = loc
    /\ UNCHANGED << env, listIdsString, imdb, trakt, user, clients, run, fresh >>

\* syncer.go:147-155: the mirror's ratings; hydrate returns, syncLists starts.
HydrateTraktRatingsGet ==
    /\ pc = "traktRatingsGet"
    /\ \E f \in Faults :
          /\ calls' = Append(calls, Call(147, "trakt", "RatingsGet", << >>, << >>, f))
          /\ IF f = "ok"
                THEN /\ user' = [ user EXCEPT !.ratings = [ ZeroDataPair EXCEPT
                                                              !.ImdbList = loc.imdbRatings,
                                                              !.TraktList = trakt.ratings ] ]
                     /\ loc' = [ ZeroLoc EXCEPT !.k = 1 ]
                     /\ pc' = "syncListsAdd"
                     /\ err' = err
                ELSE /\ Fatal("hydrate")
                     /\ UNCHANGED << user, loc >>
    /\ UNCHANGED << env, listIdsString, imdb, trakt, clients, run, fresh >>

(***************************************************************************)
(* syncLists (syncer.go:158-198).                                          *)
(***************************************************************************)
\* The mirror's answer to a write to list id: not found when it holds no such list.
ListWriteRes(f, id) ==
    IF f # "ok" THEN f
    ELSE IF id \in DOMAIN trakt.lists /\ trakt.lists[id] # << >> THEN "ok" ELSE "notfound"

\* syncer.go:160-166, 174-178: the add call of pairing k, when its diff has additions.
SyncListsAdd ==
    /\ pc = "syncListsAdd"
    /\ LET list == user.lists[loc.k]
           diff == Difference(list)
       IN  IF Len(diff.add) > 0
              THEN \E f \in Faults :
                     LET res == IF list.IsWatchlist THEN f ELSE ListWriteRes(f, list.TraktListId)
                     IN  /\ calls' = Append(calls,
                                IF list.IsWatchlist
                                    THEN Call(163, "trakt", "WatchlistItemsAdd", << loc.k >>, diff.add, res)
                                    ELSE Call(175, "trakt", "ListItemsAdd", << loc.k, list.TraktListId >>, diff.add, res))
                         /\ IF res = "ok"
                               THEN /\ trakt' = IF list.IsWatchlist
                                                   THEN [ trakt EXCEPT !.watchlist = AddItems(@, diff.add) ]
                                                   ELSE [ trakt EXCEPT !.lists[list.TraktListId][1].Items = AddItems(@, diff.add) ]
                                    /\ pc' = "syncListsRemove"
                                    /\ err' = err
                               ELSE /\ Fatal("syncLists")
                                    /\ trakt' = trakt
              ELSE /\ pc' = "syncListsRemove"
                   /\ UNCHANGED << trakt, calls, err >>
    /\ UNCHANGED << env, listIdsString, imdb, user, clients, loc, run, fresh >>

\* syncLists without its remove calls: pairing k is left after the add call.
SyncListsRemove_Never ==
    /\ pc = "syncListsRemove"
    /\ loc' = [ loc EXCEPT !.k = loc.k + 1 ]
    /\ pc' = LoopPc(loc.k + 1, Len(user.lists), "syncListsAdd", "listsGet")
    /\ UNCHANGED << env, listIdsString, imdb, trakt, user, clients, calls, err, run, fresh >>

\* syncer.go:167-172, 179-183: the remove call of pairing k, when its diff has removals.
SyncListsRemove ==
    /\ pc = "syncListsRemove"
    /\ LET list == user.lists[loc.k]
           diff == Difference(list)
           next == LoopPc(loc.k + 1, Len(user.lists), "syncListsAdd", "listsGet")
       IN  IF Len(diff.remove) > 0
              THEN \E f \in Faults :
                     LET res == IF list.IsWatchlist THEN f ELSE ListWriteRes(f, list.TraktListId)
                     IN  /\ calls' = Append(calls,
                                IF list.IsWatchlist
                                    THEN Call(168, "trakt", "WatchlistItemsRemove", << loc.k >>, diff.remove, res)
                                    ELSE Call(180, "trakt", "ListItemsRemove", << loc.k, list.TraktListId >>, diff.remove, res))
                         /\ IF res = "ok"
                               THEN /\ trakt' = IF list.IsWatchlist
                                                   THEN [ trakt EXCEPT !.watchlist = RemoveItems(@, diff.remove) ]
                                                   ELSE [ trakt EXCEPT !.lists[list.TraktListId][1].Items = RemoveItems(@, diff.remove) ]
                                    /\ loc' = [ loc EXCEPT !.k = loc.k + 1 ]
                                    /\ pc' = next
                                    /\ err' = err
                               ELSE /\ Fatal("syncLists")
                                    /\ UNCHANGED << trakt, loc >>
              ELSE /\ loc' = [ loc EXCEPT !.k = loc.k + 1 ]
                   /\ pc' = next
                   /\ UNCHANGED << trakt, calls, err >>
    /\ UNCHANGED << env, listIdsString, imdb, user, clients, run, fresh >>

\* syncer.go:186-189: the lists of the mirror.
SyncListsListsGet ==
    /\ pc = "listsGet"
    /\ \E f \in Faults :
          /\ calls' = Append(calls, Call(186, "trakt", "ListsGet", << >>, MirrorLists(trakt), f))
          /\ IF f = "ok"
                THEN /\ loc' = [ loc EXCEPT !.traktLists = MirrorLists(trakt), !.k = 1 ]
                     /\ pc' = LoopPc(1, Len(MirrorLists(trakt)), "orphans", "ratingsAdd")
                     /\ err' = err
                ELSE /\ Fatal("syncLists")
                     /\ loc' = loc
    /\ UNCHANGED << env, listIdsString, imdb, trakt, user, clients, run, fresh >>

\* contains compared with the mirror id of the pairings instead of their name.
contains_BySlug(dps, traktListName) ==
    \E i \in DOMAIN dps : dps[i].TraktListId = FormatTraktListName(traktListName)

\* contains (syncer.go:343-350).
contains(dps, traktListName) == \E i \in DOMAIN dps : dps[i].ImdbListName = traktListName

\* syncer.go:190-191: a mirror list whose name is the name of a pairing is kept.
SyncListsKeep ==
    /\ pc = "orphans"
    /\ contains(user.lists, loc.traktLists[loc.k].Name)
    /\ loc' = [ loc EXCEPT !.k = loc.k + 1 ]
    /\ pc' = LoopPc(loc.k + 1, Len(loc.traktLists), "orphans", "ratingsAdd")
    /\ UNCHANGED << env, listIdsString, imdb, trakt, user, clients, calls, err, run, fresh >>

\* syncer.go:191-195: a mirror list whose name is the name of no pairing is removed.
SyncListsListRemove ==
    /\ pc = "orphans"
    /\ ~ contains(user.lists, loc.traktLists[loc.k].Name)
    /\ \E f \in Faults :
          LET slug == loc.traktLists[loc.k].Ids.Slug
          IN  /\ calls' = Append(calls, Call(192, "trakt", "ListRemove", << loc.k, slug >>, << >>, f))
              /\ IF f = "ok"
                    THEN /\ trakt' = [ trakt EXCEPT !.lists[slug] = << >> ]
                         /\ loc' = [ loc EXCEPT !.k = loc.k + 1 ]
                         /\ pc' = LoopPc(loc.k + 1, Len(loc.traktLists), "orphans", "ratingsAdd")
                         /\ err' = err
                    ELSE /\ Fatal("syncLists")
                         /\ UNCHANGED << trakt, loc >>
    /\ UNCHANGED << env, listIdsString, imdb, user, clients, run, fresh >>

(***************************************************************************)
(* syncRatings (syncer.go:200-286).                                        *)
(***************************************************************************)
\* The mirror's history after entries were added for, or removed of, the items.
HistoryAfterAdd(h, items) ==
    [ id \in DOMAIN h |-> IF id \in TraktKeys(items) THEN h[id] + 1 ELSE h[id] ]
HistoryAfterRemove(h, items) ==
    [ id \in DOMAIN h |-> IF id \in TraktKeys(items) THEN 0 ELSE h[id] ]

\* syncer.go:201-205: the rating-add call of the additions.
SyncRatingsAdd ==
    /\ pc = "ratingsAdd"
    /\ LET diff == Difference(user.ratings)
       IN  IF Len(diff.add) > 0
              THEN \E f \in Faults :
                     /\ calls' = Append(calls, Call(203, "trakt", "RatingsAdd", << >>, diff.add, f))
                     /\ IF f = "ok"
                           THEN /\ trakt' = [ trakt EXCEPT !.ratings = UpsertRatings(@, diff.add) ]
                                /\ loc' = [ loc EXCEPT !.k = 1, !.history = << >> ]
                                /\ pc' = "historyGetAdded"
                                /\ err' = err
                           ELSE /\ Fatal("syncRatings")
                                /\ UNCHANGED << trakt, loc >>
              ELSE /\ pc' = "ratingsRemove"
                   /\ UNCHANGED << trakt, loc, calls, err >>
    /\ UNCHANGED << env, listIdsString, imdb, user, clients, run, fresh >>

\* syncer.go:216 with the test dropped: every added item goes to the history batch.
SkipAdded_Never(history) == FALSE

\* syncer.go:216: an added item the history holds already is skipped.
SkipAdded(history) == history > 0

\* syncer.go:207-220: one added item; its id, then the mirror's history of it.
SyncRatingsHistoryGetAdded ==
    /\ pc = "historyGetAdded"
    /\ LET item == Difference(user.ratings).add[loc.k]
           traktItemId == GetItemId(item)
       IN  IF traktItemId = << >>
              THEN /\ Fatal("syncRatings")
                   /\ UNCHANGED << loc, calls >>
              ELSE \E f \in Faults :
                     LET history == trakt.history[traktItemId[1]]
                     IN  /\ calls' = Append(calls,
                                Call(212, "trakt", "HistoryGet", << item.Type, traktItemId[1] >>,
                                     << history >>, f))
                         /\ IF f = "ok"
                               THEN /\ loc' = [ loc EXCEPT
                                                  !.k = loc.k + 1,
                                                  !.history = IF SkipAdded(history) THEN @ ELSE Append(@, item) ]
                                    /\ pc' = LoopPc(loc.k + 1, Len(Difference(user.ratings).add),
                                                    "historyGetAdded", "historyAdd")
                                    /\ err' = err
                               ELSE /\ Fatal("syncRatings")
                                    /\ loc' = loc
    /\ UNCHANGED << env, listIdsString, imdb, trakt, user, clients, run, fresh >>

\* syncer.go:221-225: the history-add call, when the batch holds an item.
SyncRatingsHistoryAdd ==
    /\ pc = "historyAdd"
    /\ IF Len(loc.history) > 0
          THEN \E f \in Faults :
                 /\ calls' = Append(calls, Call(222, "trakt", "HistoryAdd", << >>, loc.history, f))
                 /\ IF f = "ok"
                       THEN /\ trakt' = [ trakt EXCEPT !.history = HistoryAfterAdd(@, loc.history) ]
                            /\ pc' = "ratingsRemove"
                            /\ err' = err
                       ELSE /\ Fatal("syncRatings")
                            /\ trakt' = trakt
          ELSE /\ pc' = "ratingsRemove"
               /\ UNCHANGED << trakt, calls, err >>
    /\ UNCHANGED << env, listIdsString, imdb, user, clients, loc, run, fresh >>

\* syncRatings without the removals: the remove side of the diff is not applied.
SyncRatingsRemove_Skipped ==
    /\ pc = "ratingsRemove"
    /\ pc' = "ratingsUpdate"
    /\ UNCHANGED << env, listIdsString, imdb, trakt, user, clients, loc, calls, err, run, fresh >>

\* syncer.go:227-230: the rating-remove call of the removals.
SyncRatingsRemove ==
    /\ pc = "ratingsRemove"
    /\ LET diff == Difference(user.ratings)
       IN  IF Len(diff.remove) > 0
              THEN \E f \in Faults :
                     /\ calls' = Append(calls, Call(228, "trakt", "RatingsRemove", << >>, diff.remove, f))
                     /\ IF f = "ok"
                           THEN /\ trakt' = [ trakt EXCEPT !.ratings = RemoveItems(@, diff.remove) ]
                                /\ loc' = [ loc EXCEPT !.k = 1, !.history = << >> ]
                                /\ pc' = "historyGetRemoved"
                                /\ err' = err
                           ELSE /\ Fatal("syncRatings")
                                /\ UNCHANGED << trakt, loc >>
              ELSE /\ pc' = "ratingsUpdate"
                   /\ UNCHANGED << trakt, loc, calls, err >>
    /\ UNCHANGED << env, listIdsString, imdb, user, clients, run, fresh >>

\* syncer.go:241 with the test dropped: every removed item goes to the history batch.
SkipRemoved_Never(history) == FALSE

\* syncer.go:241: a removed item the history does not hold is skipped.
SkipRemoved(history) == history = 0

\* syncer.go:232-245: one removed item; its id, then the mirror's history of it.
SyncRatingsHistoryGetRemoved ==
    /\ pc = "historyGetRemoved"
    /\ LET item == Difference(user.ratings).remove[loc.k]
           traktItemId == GetItemId(item)
       IN  IF traktItemId = << >>
              THEN /\ Fatal("syncRatings")
                   /\ UNCHANGED << loc, calls >>
              ELSE \E f \in Faults :
                     LET history == trakt.history[traktItemId[1]]
                     IN  /\ calls' = Append(calls,
                                Call(237, "trakt", "HistoryGet", << item.Type, traktItemId[1] >>,
                                     << history >>, f))
                         /\ IF f = "ok"
                               THEN /\ loc' = [ loc EXCEPT
                                                  !.k = loc.k + 1,
                                                  !.history = IF SkipRemoved(history) THEN @ ELSE Append(@, item) ]
                                    /\ pc' = LoopPc(loc.k + 1, Len(Difference(user.ratings).remove),
                                                    "historyGetRemoved", "historyRemove")
                                    /\ err' = err
                               ELSE /\ Fatal("syncRatings")
                                    /\ loc' = loc
    /\ UNCHANGED << env, listIdsString, imdb, trakt, user, clients, run, fresh >>

\* syncer.go:246-250: the history-remove call, when the batch holds an item.
SyncRatingsHistoryRemove ==
    /\ pc = "historyRemove"
    /\ IF Len(loc.history) > 0
          THEN \E f \in Faults :
                 /\ calls' = Append(calls, Call(247, "trakt", "HistoryRemove", << >>, loc.history, f))
                 /\ IF f = "ok"
                       THEN /\ trakt' = [ trakt EXCEPT !.history = HistoryAfterRemove(@, loc.history) ]
                            /\ pc' = "ratingsUpdate"
                            /\ err' = err
                       ELSE /\ Fatal("syncRatings")
                            /\ trakt' = trakt
          ELSE /\ pc' = "ratingsUpdate"
               /\ UNCHANGED << trakt, calls, err >>
    /\ UNCHANGED << env, listIdsString, imdb, user, clients, loc, run, fresh >>

\* syncer.go:259 with the comparison of the ratings dropped.
NeedsUpdate_AnyRating(imdbItem, traktItem) ==
    imdbItem.Id = SpecOf(traktItem).Imdb

\* syncer.go:257-275: the mirror item is of a known type, carries the id of the
\* source item, and its rating is not the source's.
NeedsUpdate(imdbItem, traktItem) ==
    CASE traktItem.Type = TraktItemTypeMovie ->
            imdbItem.Id = traktItem.Movie.Imdb /\ imdbItem.Rating[1] # traktItem.Rating
      [] traktItem.Type = TraktItemTypeShow ->
            imdbItem.Id = traktItem.Show.Imdb /\ imdbItem.Rating[1] # traktItem.Rating
      [] traktItem.Type = TraktItemTypeEpisode ->
            imdbItem.Id = traktItem.Episode.Imdb /\ imdbItem.Rating[1] # traktItem.Rating
      [] OTHER -> FALSE

\* syncer.go:256, 260-261: the copy of the mirror item with the source's rating
\* and the source's rating date, in UTC, as a string.
Stamped(imdbItem, traktItem) ==
    LET ratedAt == TimeString(TimeUTC(imdbItem.RatingDate))
    IN  CASE traktItem.Type = TraktItemTypeMovie ->
                [ traktItem EXCEPT !.Movie.Rating = imdbItem.Rating, !.Movie.RatedAt = Ptr(ratedAt) ]
          [] traktItem.Type = TraktItemTypeShow ->
                [ traktItem EXCEPT !.Show.Rating = imdbItem.Rating, !.Show.RatedAt = Ptr(ratedAt) ]
          [] traktItem.Type = TraktItemTypeEpisode ->
                [ traktItem EXCEPT !.Episode.Rating = imdbItem.Rating, !.Episode.RatedAt = Ptr(ratedAt) ]
          [] OTHER -> traktItem

\* The update batch without the scan of the mirror's ratings: every rated source item.
ratingsToUpdate_EveryRated(imdbList, traktList) ==
    ItemsToAdd(SelectSeq(imdbList, LAMBDA x : x.Rating # Nil))

\* syncer.go:252-279: the update batch.
RECURSIVE ratingsToUpdate(_, _)
ratingsToUpdate(imdbList, traktList) ==
    IF imdbList = << >> THEN << >>
    ELSE LET imdbItem == Head(imdbList)
             inner == IF imdbItem.Rating # Nil
                         THEN LET hits == SelectSeq(traktList, LAMBDA t : NeedsUpdate(imdbItem, t))
                              IN  [ i \in DOMAIN hits |-> Stamped(imdbItem, hits[i]) ]
                         ELSE << >>
         IN  inner \o ratingsToUpdate(Tail(imdbList), traktList)

\* syncer.go:252-285: the rating-add call of the updates; Run reports success (syncer.go:93).
SyncRatingsUpdate ==
    /\ pc = "ratingsUpdate"
    /\ LET batch == ratingsToUpdate(user.ratings.ImdbList, user.ratings.TraktList)
       IN  IF Len(batch) > 0
              THEN \E f \in Faults :
                     /\ calls' = Append(calls, Call(281, "trakt", "RatingsAdd", << >>, batch, f))
                     /\ IF f = "ok"
                           THEN /\ trakt' = [ trakt EXCEPT !.ratings = UpsertRatings(@, batch) ]
                                /\ pc' = "done"
                                /\ err' = err
                           ELSE /\ Fatal("syncRatings")
                                /\ trakt' = trakt
              ELSE /\ pc' = "done"
                   /\ UNCHANGED << trakt, calls, err >>
    /\ UNCHANGED << env, listIdsString, imdb, user, clients, loc, run, fresh >>

(***************************************************************************)
(* After a run that reported success: the program is started again (a new  *)
(* Syncer), or Run is called again on the same Syncer.                     *)
(***************************************************************************)
NewProcess ==
    /\ pc = "done"
    /\ run < MaxRuns
    /\ run' = run + 1
    /\ fresh' = TRUE
    /\ user' = ZeroUser
    /\ clients' = { }
    /\ loc' = ZeroLoc
    /\ calls' = << >>
    /\ pc' = "validate"
    /\ UNCHANGED << env, listIdsString, imdb, trakt, err >>

RunAgain ==
    /\ pc = "done"
    /\ run < MaxRuns
    /\ run' = run + 1
    /\ fresh' = FALSE
    /\ loc' = ZeroLoc
    /\ calls' = << >>
    /\ pc' = "hydrate"
    /\ UNCHANGED << env, listIdsString, imdb, trakt, user, clients, err >>

Next ==
    \/ ValidateEnvVars
    \/ NewImdbClient
    \/ NewTraktClient
    \/ HydrateBegin
    \/ CleanupSkipDuplicate
    \/ CleanupListItemsGet
    \/ HydrateListsScrape
    \/ HydrateWatchlistGet
    \/ HydrateWatchlistItemsGet
    \/ HydrateListItemsGet
    \/ HydrateListAdd
    \/ HydrateImdbRatingsGet
    \/ HydrateTraktRatingsGet
    \/ SyncListsAdd
    \/ SyncListsRemove
    \/ SyncListsListsGet
    \/ SyncListsKeep
    \/ SyncListsListRemove
    \/ SyncRatingsAdd
    \/ SyncRatingsHistoryGetAdded
    \/ SyncRatingsHistoryAdd
    \/ SyncRatingsRemove
    \/ SyncRatingsHistoryGetRemoved
    \/ SyncRatingsHistoryRemove
    \/ SyncRatingsUpdate
    \/ NewProcess
    \/ RunAgain

Spec == Init /\ [][Next]_vars

\* Every remote call returns and the process is scheduled: a run that has not
\* reported success or ended goes on.  Nothing obliges anyone to start another run.
RunGoesOn == pc # "done" /\ Next
LiveSpec == Init /\ [][Next]_vars /\ WF_vars(RunGoesOn)

(***************************************************************************)
(* Properties.                                                             *)
(***************************************************************************)
\* The places of Run after hydrate returned nil, and after syncLists returned nil.
InSyncRatings ==
    pc \in { "ratingsAdd", "historyGetAdded", "historyAdd", "ratingsRemove", "historyGetRemoved",
             "historyRemove", "ratingsUpdate" }
Hydrated ==
    \/ pc \in { "syncListsAdd", "syncListsRemove", "listsGet", "orphans", "done" }
    \/ InSyncRatings
    \/ pc = "fatal" /\ err.phase \in { "syncLists", "syncRatings" }
ListsSynced ==
    \/ InSyncRatings
    \/ pc = "done"
    \/ pc = "fatal" /\ err.phase = "syncRatings"

CallsAt(line) == SelectSeq(calls, LAMBDA c : c.line = line)
CallsOf(op) == SelectSeq(calls, LAMBDA c : c.op = op)

ItemWrites ==
    { "ListItemsAdd", "ListItemsRemove", "WatchlistItemsAdd", "WatchlistItemsRemove",
      "RatingsAdd", "RatingsRemove" }

NoDiff(dp) == Difference(dp).add = << >> /\ Difference(dp).remove = << >>

\* C1 (idempotence): in a run of a newly started program that follows a run that
\* reported success, with the source unchanged, no item or rating add, remove or
\* update call is issued, and once hydrated every list pairing, the watchlist
\* pairing and the ratings pairing have an empty add and an empty remove diff.
C1_SecondRunChangesNothing ==
    (run = 2 /\ fresh) =>
        /\ \A i \in DOMAIN calls : calls[i].op \notin ItemWrites
        /\ Hydrated => /\ \A i \in DOMAIN user.lists : NoDiff(user.lists[i])
                       /\ NoDiff(user.ratings)

\* C2 (orphan cleanup): once syncLists returned without error, each mirror list
\* that ListsGet returned was the slug of exactly one ListRemove call if its name
\* is the name of no pairing, and of none if it is; every ListRemove call names a
\* list ListsGet returned, so none is issued for the watchlist.
C2_OrphanCleanup ==
    ListsSynced =>
        LET got == CallsAt(186)[1].items
            removed(slug) == { j \in DOMAIN calls : calls[j].op = "ListRemove" /\ calls[j].arg[2] = slug }
            paired(name) == \E p \in DOMAIN user.lists : user.lists[p].ImdbListName = name
        IN  /\ Len(CallsAt(186)) = 1
            /\ \A i \in DOMAIN got :
                  Cardinality(removed(got[i].Ids.Slug)) = IF paired(got[i].Name) THEN 0 ELSE 1
            /\ \A j \in DOMAIN calls :
                  calls[j].op = "ListRemove" =>
                      \E i \in DOMAIN got : got[i].Ids.Slug = calls[j].arg[2] /\ got[i].Name # "watchlist"

\* A run where syncLists returned after removing one mirror list and keeping another.
C2_Witness ==
    /\ ListsSynced
    /\ Len(CallsOf("ListRemove")) = 1
    /\ Len(CallsAt(186)[1].items) = 2

\* The source item of the hydrated ratings with the given id.
SourceRated(id) ==
    LET S == user.ratings.ImdbList IN S[CHOOSE i \in DOMAIN S : S[i].Id = id]

\* The ids rated on both sides, and those of them the two sides rate differently.
RatedOnBoth == ImdbKeys(user.ratings.ImdbList) \cap TraktKeys(user.ratings.TraktList)
RatedDifferently ==
    { id \in RatedOnBoth :
        /\ SourceRated(id).Rating # Nil
        /\ \E j \in DOMAIN user.ratings.TraktList :
              /\ TraktKey(user.ratings.TraktList[j]) = id
              /\ user.ratings.TraktList[j].Rating # SourceRated(id).Rating[1] }

\* C3 (update correctness): in syncRatings an item rated on both sides is in
\* neither the RatingsAdd call of the additions nor the RatingsRemove call; the
\* items rated differently on the two sides, and only they, are sent, each once,
\* in one RatingsAdd call of updates, each with the source's rating and the
\* source's rating date as a UTC string; items rated alike and source items
\* without a rating are not in it.
C3_UpdateCorrectness ==
    ListsSynced =>
        /\ \A i \in DOMAIN calls :
              calls[i].line \in { 203, 228 } => TraktKeys(calls[i].items) \cap RatedOnBoth = { }
        /\ Len(CallsAt(281)) <= 1
        /\ pc = "done" => (Len(CallsAt(281)) = 1 <=> RatedDifferently # { })
        /\ \A i \in DOMAIN calls :
              calls[i].line = 281 =>
                  LET batch == calls[i].items
                  IN  /\ TraktKeys(batch) = RatedDifferently
                      /\ Len(batch) = Cardinality(RatedDifferently)
                      /\ \A j \in DOMAIN batch :
                            LET src == SourceRated(TraktKey(batch[j]))
                                utc == (src.RatingDate.wall - src.RatingDate.zone + 24) % 24
                            IN  /\ SpecOf(batch[j]).Rating = src.Rating
                                /\ SpecOf(batch[j]).RatedAt = << << utc, 0 >> >>

\* A run that reported success after an update call, with a rating dated in
\* another zone, an item rated alike on both sides and a source item without rating.
C3_Witness ==
    /\ pc = "done"
    /\ Len(CallsAt(281)) = 1
    /\ \E id \in RatedDifferently : SourceRated(id).RatingDate.zone # 0
    /\ \E id \in RatedOnBoth \ RatedDifferently : SourceRated(id).Rating # Nil
    /\ \E id \in RatedOnBoth : SourceRated(id).Rating = Nil

\* The items of the RatingsAdd call of the additions, and the HistoryGet calls for them.
AddedRatings == IF CallsAt(203) = << >> THEN << >> ELSE CallsAt(203)[1].items
AfterHistoryAdd ==
    pc \in { "ratingsRemove", "historyGetRemoved", "historyRemove", "ratingsUpdate", "done" }

\* The i-th HistoryGet for an added item returned no entry.
NoHistory(i) ==
    /\ i \in DOMAIN CallsAt(212)
    /\ CallsAt(212)[i].res = "ok"
    /\ CallsAt(212)[i].items = << 0 >>

\* C4 (history dedup): every item of a HistoryAdd call is an added rating whose
\* HistoryGet returned no entry; once the additions are done, HistoryGet was
\* called for each added item with its type and id, the added items without
\* history are exactly the batch of the one HistoryAdd call, and HistoryAdd is
\* not called when every added item has history.
C4_HistoryDedup ==
    /\ Len(CallsAt(222)) <= 1
    /\ \A c \in Range(CallsAt(222)) : \A t \in Range(c.items) :
          \E i \in DOMAIN AddedRatings : AddedRatings[i] = t /\ NoHistory(i)
    /\ (AfterHistoryAdd /\ AddedRatings # << >>) =>
          LET fresh_ == { i \in DOMAIN AddedRatings : NoHistory(i) }
          IN  /\ Len(CallsAt(212)) = Len(AddedRatings)
              /\ \A i \in DOMAIN AddedRatings :
                    CallsAt(212)[i].arg = << AddedRatings[i].Type, TraktKey(AddedRatings[i]) >>
              /\ IF fresh_ = { }
                    THEN CallsAt(222) = << >>
                    ELSE /\ Len(CallsAt(222)) = 1
                         /\ CallsAt(222)[1].items =
                                SelectSeq(AddedRatings,
                                          LAMBDA t : \E i \in fresh_ : AddedRatings[i] = t)

\* A run that added two ratings and a history entry for only one of them.
C4_Witness ==
    /\ AfterHistoryAdd
    /\ Len(AddedRatings) = 2
    /\ Len(CallsAt(222)) = 1
    /\ Len(CallsAt(222)[1].items) = 1

\* The identifiers given to a newly built Syncer, and whether any was given.
GivenIds == [ i \in DOMAIN ParsedLists(listIdsString) |-> ParsedLists(listIdsString)[i].ImdbListId ]
Explicit == fresh /\ GivenIds # << >>

\* The elements of a sequence in the order of their first occurrence.
RECURSIVE FirstOccurrences(_)
FirstOccurrences(s) ==
    IF s = << >> THEN << >>
    ELSE LET front == FirstOccurrences(SubSeq(s, 1, Len(s) - 1))
         IN  IF s[Len(s)] \in Range(front) THEN front ELSE Append(front, s[Len(s)])

\* cleanupLists returned nil (hydrate may still be running).
CleanedUp ==
    \/ pc \in { "watchlistGet", "hydrateLists", "listAdd", "imdbRatingsGet", "traktRatingsGet" }
    \/ Hydrated

NamedPairs == SelectSeq(user.lists, LAMBDA dp : ~ dp.IsWatchlist)

\* C5 (duplicate input): cleanupLists never calls the source's ListItemsGet twice
\* for one identifier; for the identifiers given to a new Syncer the calls follow
\* the order of first occurrence, and when cleanupLists has returned there is one
\* call per distinct identifier and one pairing per identifier the source found,
\* in that order.
C5_DuplicateInput ==
    /\ \A i, j \in DOMAIN CallsAt(298) : i # j => CallsAt(298)[i].arg # CallsAt(298)[j].arg
    /\ Explicit =>
          /\ Len(CallsAt(298)) <= Len(FirstOccurrences(GivenIds))
          /\ \A i \in DOMAIN CallsAt(298) : CallsAt(298)[i].arg = << FirstOccurrences(GivenIds)[i] >>
    /\ (Explicit /\ CleanedUp) =>
          LET found == SelectSeq(CallsAt(298), LAMBDA c : c.res = "ok")
          IN  /\ Len(CallsAt(298)) = Len(FirstOccurrences(GivenIds))
              /\ Len(NamedPairs) = Len(found)
              /\ \A i \in DOMAIN found : << NamedPairs[i].ImdbListId >> = found[i].arg

\* The identifiers [A, A, B], both found: two pairings and two calls.
C5_Witness ==
    /\ Explicit
    /\ CleanedUp
    /\ Len(GivenIds) = 3
    /\ Len(NamedPairs) = 2
    /\ Len(CallsAt(298)) = 2

\* C6 (not-found tolerance): a not-found answer of the source's ListItemsGet does
\* not end the run, any other error of it ends the run in hydrate; when
\* cleanupLists has returned, an identifier the source does not hold has no
\* pairing and every identifier it holds has one pairing, whose id, name, mirror
\* id and source items are those of that list alone.
C6_NotFoundTolerance ==
    /\ \A i \in DOMAIN calls :
          calls[i].line = 298 =>
              /\ calls[i].res = "notfound" => ~ (i = Len(calls) /\ pc = "fatal")
              /\ calls[i].res = "err" => i = Len(calls) /\ pc = "fatal" /\ err.phase = "hydrate"
    /\ (Explicit /\ CleanedUp) =>
          \A id \in Range(GivenIds) :
              LET pairs == { i \in DOMAIN NamedPairs : NamedPairs[i].ImdbListId = id }
                  held == id \in DOMAIN imdb.lists /\ imdb.lists[id] # << >>
              IN  IF held
                     THEN /\ Cardinality(pairs) = 1
                          /\ \A i \in pairs :
                                /\ NamedPairs[i].ImdbListName = imdb.lists[id][1].Name
                                /\ NamedPairs[i].TraktListId = FormatTraktListName(imdb.lists[id][1].Name)
                                /\ NamedPairs[i].ImdbList = imdb.lists[id][1].Items
                                /\ ~ NamedPairs[i].IsWatchlist
                     ELSE pairs = { }

\* A run that reported success although the source did not find one of two identifiers.
C6_Witness ==
    /\ pc = "done"
    /\ Explicit
    /\ \E c \in Range(CallsAt(298)) : c.res = "notfound"
    /\ Len(NamedPairs) = 1

\* C7 (missing mirror list): a not-found answer of the mirror's ListItemsGet is
\* followed at once by one ListAdd with the pairing's mirror id and name, and
\* ListAdd is called for nothing else; after it the pairing's mirror side is
\* empty and hydrate goes on; a failed ListAdd or another error of ListItemsGet
\* ends the run in hydrate; syncLists then sends all source items of the pairing
\* in its add call and no remove call.
C7_MissingMirrorList ==
    /\ \A i \in DOMAIN calls :
          /\ (calls[i].line = 128 /\ calls[i].res = "notfound") =>
                IF i = Len(calls) THEN pc = "listAdd"
                ELSE /\ calls[i + 1].line = 133
                     /\ calls[i + 1].arg =
                            << calls[i].arg[1], calls[i].arg[2], user.lists[calls[i].arg[1]].ImdbListName >>
                     /\ calls[i].arg[2] = user.lists[calls[i].arg[1]].TraktListId
          /\ (calls[i].line = 128 /\ calls[i].res = "err") =>
                i = Len(calls) /\ pc = "fatal" /\ err.phase = "hydrate"
          /\ calls[i].line = 133 =>
                /\ i > 1 /\ calls[i - 1].line = 128 /\ calls[i - 1].res = "notfound"
                /\ IF calls[i].res = "ok"
                      THEN /\ user.lists[calls[i].arg[1]].TraktList = << >>
                           /\ i = Len(calls) =>
                                 /\ pc \in { "hydrateLists", "imdbRatingsGet" }
                                 /\ loc.k = calls[i].arg[1] + 1
                      ELSE i = Len(calls) /\ pc = "fatal" /\ err.phase = "hydrate"
    /\ ListsSynced =>
          \A c \in Range(CallsAt(133)) :
              LET k == c.arg[1]
                  adds == SelectSeq(CallsAt(175), LAMBDA a : a.arg[1] = k)
              IN  /\ SelectSeq(CallsAt(180), LAMBDA r : r.arg[1] = k) = << >>
                  /\ IF user.lists[k].ImdbList = << >> THEN adds = << >>
                     ELSE /\ Len(adds) = 1
                          /\ adds[1].arg = << k, c.arg[2] >>
                          /\ Len(adds[1].items) = Len(user.lists[k].ImdbList)
                          /\ \A j \in DOMAIN adds[1].items :
                                TraktKey(adds[1].items[j]) = user.lists[k].ImdbList[j].Id

\* A run whose syncLists returned after a mirror list was created and filled.
C7_Witness ==
    /\ ListsSynced
    /\ \E c \in Range(CallsAt(133)) : \E a \in Range(CallsAt(175)) :
          a.arg[1] = c.arg[1] /\ Len(a.items) = 2

\* A call that failed and is not one of the two silenced not-found answers.
Failed(c) == c.res # "ok" /\ ~ (c.line \in { 298, 128 } /\ c.res = "notfound")

\* C8 (fail-fast): a remote call that returns an error, other than the not-found
\* answers of the source's ListItemsGet in cleanupLists and of the mirror's
\* ListItemsGet in hydrate, is the last call of the run and ends it; a run that
\* reports success had no such call.
C8_FailFast ==
    /\ \A i \in DOMAIN calls : Failed(calls[i]) => i = Len(calls) /\ pc = "fatal"
    /\ pc = "done" => \A i \in DOMAIN calls : ~ Failed(calls[i])

\* A run ended by a not-found answer to a write, after a silenced not-found answer.
C8_Witness ==
    /\ pc = "fatal"
    /\ calls # << >>
    /\ calls[Len(calls)].res = "notfound"
    /\ calls[Len(calls)].line = 175
    /\ \E i \in 1..(Len(calls) - 1) : calls[i].res = "notfound"

\* C9 as claimed (every recognised input): when any of the eight variables is not
\* set, the run ends in validation, before a client is built or a call is made,
\* and the error names every variable that is not set.
C9_EveryRecognisedInputChecked ==
    (env # EnvVarKeys /\ pc # "validate") =>
        /\ pc = "fatal" /\ err.phase = "validate"
        /\ Range(err.missing) = EnvVarKeys \ env
        /\ clients = { } /\ calls = << >>

\* C9 (configuration validation, amended): the seven required variables
\* (all but IMDB_USER_ID) are checked before a client is built or a call is
\* made; when any of them is not set the run ends in validation and the error
\* names every required variable that is not set, each once; when all of them
\* are set validation passes, with or without IMDB_USER_ID.
C9_RequiredInputsChecked ==
    LET missing == (EnvVarKeys \ { EnvVarKeyUserId }) \ env
    IN  /\ pc = "validate" => clients = { } /\ calls = << >>
        /\ (missing # { } /\ pc # "validate") =>
              /\ pc = "fatal" /\ err.phase = "validate"
              /\ Range(err.missing) = missing
              /\ Len(err.missing) = Cardinality(missing)
              /\ clients = { } /\ calls = << >>
        /\ (missing = { } /\ pc # "validate") => err.phase # "validate"

\* A run ended by validation that names three variables; IMDB_USER_ID is set.
C9_Witness ==
    /\ pc = "fatal"
    /\ err.phase = "validate"
    /\ Len(err.missing) = 3
    /\ EnvVarKeyUserId \in env

Watchlists == { i \in DOMAIN user.lists : user.lists[i].IsWatchlist }

\* C10 (watchlist pairing): the Syncer never holds two pairings marked as the
\* watchlist; once hydrate returned nil the last pairing, and only it, is marked,
\* its mirror side is what the one WatchlistItemsGet call returned, and no
\* mirror ListItemsGet or ListAdd was called for it.
C10_WatchlistPairing ==
    /\ Cardinality(Watchlists) <= 1
    /\ Hydrated =>
          /\ Watchlists = { Len(user.lists) }
          /\ Len(CallsAt(121)) = 1
          /\ CallsAt(121)[1].res = "ok"
          /\ CallsAt(121)[1].arg = << Len(user.lists) >>
          /\ user.lists[Len(user.lists)].TraktList = CallsAt(121)[1].items
          /\ \A i \in DOMAIN calls :
                calls[i].line \in { 128, 133 } => calls[i].arg[1] # Len(user.lists)

\* Hydrated with every given identifier dropped and a mirror watchlist that holds an item.
C10_Witness ==
    /\ Hydrated
    /\ Explicit
    /\ Len(user.lists) = 1
    /\ user.lists[1].TraktList # << >>

\* The items of S whose key is no key of M, as mirror items, and the items of M
\* whose key is no key of S, written out on the two sides of a pairing.
OnlyInSource(dp) ==
    LET S == dp.ImdbList
        M == dp.TraktList
        keep == { i \in DOMAIN S : \A j \in DOMAIN M : SpecOf(M[j]).Imdb # S[i].Id }
    IN  ItemsToAdd(SelectSeq(S, LAMBDA x : \E i \in keep : S[i] = x))
OnlyInMirror(dp) ==
    LET S == dp.ImdbList
        M == dp.TraktList
        keep == { j \in DOMAIN M : \A i \in DOMAIN S : SpecOf(M[j]).Imdb # S[i].Id }
    IN  SelectSeq(M, LAMBDA y : \E j \in keep : M[j] = y)

\* The pairing a write call of syncLists or syncRatings applies the diff of.
PairingOf(c) == IF c.line \in { 203, 228 } THEN user.ratings ELSE user.lists[c.arg[1]]

\* C11 (diff correctness): every add call of syncLists and the RatingsAdd call of
\* the additions carry exactly the items of the source side of their pairing
\* whose key is no key of the mirror side; every remove call of syncLists and the
\* RatingsRemove call carry exactly the items of the mirror side whose key is no
\* key of the source side; once hydrated, no key of a pairing is both to be added
\* and to be removed, and a call is issued exactly for the non-empty sides.
C11_DiffCorrectness ==
    /\ \A i \in DOMAIN calls :
          /\ calls[i].line \in { 163, 175, 203 } =>
                calls[i].items = OnlyInSource(PairingOf(calls[i])) /\ calls[i].items # << >>
          /\ calls[i].line \in { 168, 180, 228 } =>
                calls[i].items = OnlyInMirror(PairingOf(calls[i])) /\ calls[i].items # << >>
    /\ Hydrated =>
          \A dp \in Range(user.lists) \cup { user.ratings } :
              /\ { OnlyInSource(dp)[i].Type : i \in DOMAIN OnlyInSource(dp) } \subseteq
                    { dp.ImdbList[i].TitleType : i \in DOMAIN dp.ImdbList }
              /\ \A a \in DOMAIN OnlyInSource(dp), r \in DOMAIN OnlyInMirror(dp) :
                    TraktKey(OnlyInSource(dp)[a]) # TraktKey(OnlyInMirror(dp)[r])
    /\ pc = "done" =>
          /\ Len(CallsAt(203)) = (IF OnlyInSource(user.ratings) = << >> THEN 0 ELSE 1)
          /\ Len(CallsAt(228)) = (IF OnlyInMirror(user.ratings) = << >> THEN 0 ELSE 1)

\* A run that reported success with a rating added, another removed, an item
\* rated on both sides, and a list that received an item.
C11_Witness ==
    /\ pc = "done"
    /\ Len(CallsAt(203)) = 1
    /\ Len(CallsAt(228)) = 1
    /\ RatedOnBoth # { }
    /\ CallsAt(175) # << >>

\* The item calls of syncLists, and the positions in `calls` of those of pairing k
\* issued at the given lines.
ListItemLines == { 163, 168, 175, 180 }
ItemCallsOf(k, lines) == { i \in DOMAIN calls : calls[i].line \in lines /\ calls[i].arg[1] = k }

\* syncLists has left pairing k (successfully).
PairingSynced(k) ==
    \/ pc \in { "syncListsAdd", "syncListsRemove" } /\ loc.k > k
    \/ pc \in { "listsGet", "orphans" }
    \/ ListsSynced
    \/ pc = "fatal" /\ err.phase = "syncLists" /\ calls[Len(calls)].line \in { 186, 192 }

\* C12 (batching and routing in syncLists): for each pairing at most one add call
\* and at most one remove call are issued, the add call first, and the calls of
\* an earlier pairing before those of a later one; each carries the whole,
\* non-empty diff and, once syncLists has left the pairing, is there exactly when
\* its diff is non-empty; the watchlist pairing is written with
\* WatchlistItemsAdd/WatchlistItemsRemove only, a named pairing with
\* ListItemsAdd/ListItemsRemove on its own mirror list id only.
C12_BatchingAndRouting ==
    /\ \A i \in DOMAIN calls :
          calls[i].line \in ListItemLines =>
              LET k == calls[i].arg[1]
                  dp == user.lists[k]
              IN  /\ k \in DOMAIN user.lists
                  /\ calls[i].line \in { 163, 168 } <=> dp.IsWatchlist
                  /\ calls[i].op = ( CASE calls[i].line = 163 -> "WatchlistItemsAdd"
                                        [] calls[i].line = 168 -> "WatchlistItemsRemove"
                                        [] calls[i].line = 175 -> "ListItemsAdd"
                                        [] calls[i].line = 180 -> "ListItemsRemove" )
                  /\ calls[i].line \in { 175, 180 } => calls[i].arg = << k, dp.TraktListId >>
                  /\ calls[i].line \in { 163, 175 } => calls[i].items = OnlyInSource(dp)
                  /\ calls[i].line \in { 168, 180 } => calls[i].items = OnlyInMirror(dp)
                  /\ calls[i].items # << >>
    /\ \A i \in DOMAIN calls :
          calls[i].op \in { "WatchlistItemsAdd", "WatchlistItemsRemove", "ListItemsAdd", "ListItemsRemove" } =>
              calls[i].line \in ListItemLines
    /\ \A i, j \in DOMAIN calls :
          (i < j /\ calls[i].line \in ListItemLines /\ calls[j].line \in ListItemLines) =>
              \/ calls[i].arg[1] < calls[j].arg[1]
              \/ /\ calls[i].arg[1] = calls[j].arg[1]
                 /\ calls[i].line \in { 163, 175 }
                 /\ calls[j].line \in { 168, 180 }
    /\ Hydrated =>
          \A k \in DOMAIN user.lists :
              PairingSynced(k) =>
                  /\ Cardinality(ItemCallsOf(k, { 163, 175 })) =
                        (IF OnlyInSource(user.lists[k]) = << >> THEN 0 ELSE 1)
                  /\ Cardinality(ItemCallsOf(k, { 168, 180 })) =
                        (IF OnlyInMirror(user.lists[k]) = << >> THEN 0 ELSE 1)

\* syncLists returned after an add and a remove call for a named pairing and an
\* add and a remove call for the watchlist pairing.
C12_Witness ==
    /\ ListsSynced
    /\ \E k \in DOMAIN user.lists :
          ItemCallsOf(k, { 175 }) # { } /\ ItemCallsOf(k, { 180 }) # { }
    /\ CallsAt(163) # << >>
    /\ CallsAt(168) # << >>

\* The lines of syncer.go that issue the calls of hydrate, of orphan cleanup and
\* of syncRatings.
HydrateLines == { 298, 102, 108, 121, 128, 133, 143, 147 }
OrphanLines == { 186, 192 }
RatingLines == { 203, 212, 222, 228, 237, 247, 281 }

\* Before call j, pairing k was hydrated: its mirror side was fetched or created.
HydratedBefore(k, j) ==
    \E i \in 1..(j - 1) :
        /\ calls[i].line \in { 121, 128, 133 }
        /\ calls[i].res = "ok"
        /\ calls[i].arg[1] = k

\* C13 (phase ordering): a call of syncLists or syncRatings comes after every
\* call of hydrate, after the mirror side of every pairing was fetched or
\* created, and after the two RatingsGet calls, which are the last two calls of
\* hydrate and both succeeded; ListsGet and every ListRemove come after every
\* item add/remove call, ListRemove after ListsGet; a call of syncRatings comes
\* after one successful ListsGet and only successful ListRemove calls, one for
\* each list to remove.
C13_PhaseOrdering ==
    /\ \A i, j \in DOMAIN calls :
          i < j =>
              /\ calls[i].line \in ListItemLines \cup OrphanLines \cup RatingLines =>
                    calls[j].line \notin HydrateLines
              /\ calls[i].line \in OrphanLines \cup RatingLines => calls[j].line \notin ListItemLines
              /\ calls[i].line \in RatingLines => calls[j].line \notin OrphanLines
              /\ calls[i].line = 192 => calls[j].line # 186
    /\ \A j \in DOMAIN calls :
          calls[j].line \in ListItemLines \cup OrphanLines \cup RatingLines =>
              LET h == { i \in DOMAIN calls : calls[i].line \in HydrateLines }
                  last == CHOOSE i \in h : \A i2 \in h : i2 <= i
              IN  /\ \A k \in DOMAIN user.lists : HydratedBefore(k, j)
                  /\ h # { }
                  /\ last < j /\ last > 1
                  /\ calls[last].line = 147 /\ calls[last].res = "ok"
                  /\ calls[last - 1].line = 143 /\ calls[last - 1].res = "ok"
                  /\ Len(CallsAt(143)) = 1 /\ Len(CallsAt(147)) = 1
    /\ \A j \in DOMAIN calls :
          calls[j].line \in RatingLines =>
              LET got == CallsAt(186)[1].items
                  orphans == { g \in DOMAIN got : ~ contains(user.lists, got[g].Name) }
              IN  /\ Len(CallsAt(186)) = 1
                  /\ \A i \in DOMAIN calls : calls[i].line \in OrphanLines => calls[i].res = "ok"
                  /\ Len(CallsAt(192)) = Cardinality(orphans)
    /\ InSyncRatings =>
          /\ Len(CallsAt(186)) = 1
          /\ \A i \in DOMAIN calls : calls[i].line \in OrphanLines => calls[i].res = "ok"

\* A run that reported success with more than one pairing, after an item add
\* call, a ListRemove call and a RatingsAdd call.
C13_Witness ==
    /\ pc = "done"
    /\ Len(user.lists) >= 2
    /\ CallsAt(175) # << >>
    /\ CallsAt(192) # << >>
    /\ CallsAt(203) # << >>

\* The items of the RatingsRemove call, and the places after the removals.
RemovedRatings == IF CallsAt(228) = << >> THEN << >> ELSE CallsAt(228)[1].items
AfterHistoryRemove ==
    \/ pc \in { "ratingsUpdate", "done" }
    \/ pc = "fatal" /\ calls # << >> /\ calls[Len(calls)].line = 281

\* The i-th HistoryGet for a removed item returned at least one entry.
HasHistory(i) ==
    /\ i \in DOMAIN CallsAt(237)
    /\ CallsAt(237)[i].res = "ok"
    /\ CallsAt(237)[i].items[1] >= 1

\* C14 (rating removals): RatingsRemove is called at most once, with the whole
\* remove diff of the ratings; the HistoryGet calls for removed items follow it,
\* one per removed item in order, with the item's type and id; HistoryRemove is
\* called at most once, after them, with removed items whose HistoryGet returned
\* an entry; once the removals are done, RatingsRemove and the HistoryGet calls
\* are there exactly when the remove diff is non-empty, and HistoryRemove carries
\* exactly the removed items with history and is not called when there is none.
C14_RatingRemovals ==
    /\ Len(CallsAt(228)) <= 1
    /\ Len(CallsAt(247)) <= 1
    /\ Len(CallsOf("RatingsRemove")) = Len(CallsAt(228))
    /\ Len(CallsOf("HistoryRemove")) = Len(CallsAt(247))
    /\ \A c \in Range(CallsAt(228)) : c.items = OnlyInMirror(user.ratings) /\ c.items # << >>
    /\ Len(CallsAt(237)) <= Len(RemovedRatings)
    /\ \A i \in DOMAIN CallsAt(237) :
          CallsAt(237)[i].arg = << RemovedRatings[i].Type, TraktKey(RemovedRatings[i]) >>
    /\ \A i, j \in DOMAIN calls :
          i < j => /\ calls[j].line = 228 => calls[i].line \notin { 237, 247 }
                   /\ calls[j].line = 237 => calls[i].line # 247
    /\ \A c \in Range(CallsAt(247)) : \A t \in Range(c.items) :
          \E i \in DOMAIN RemovedRatings : RemovedRatings[i] = t /\ HasHistory(i)
    /\ AfterHistoryRemove =>
          IF OnlyInMirror(user.ratings) = << >>
             THEN CallsAt(228) = << >> /\ CallsAt(237) = << >> /\ CallsAt(247) = << >>
             ELSE LET held == { i \in DOMAIN RemovedRatings : HasHistory(i) }
                  IN  /\ Len(CallsAt(228)) = 1
                      /\ Len(CallsAt(237)) = Len(RemovedRatings)
                      /\ IF held = { }
                            THEN CallsAt(247) = << >>
                            ELSE /\ Len(CallsAt(247)) = 1
                                 /\ CallsAt(247)[1].items =
                                        SelectSeq(RemovedRatings,
                                                  LAMBDA t : \E i \in held : RemovedRatings[i] = t)

\* A run that removed two ratings and the history of only one of them.
C14_Witness ==
    /\ AfterHistoryRemove
    /\ Len(RemovedRatings) >= 2
    /\ Len(CallsAt(247)) = 1
    /\ Len(CallsAt(247)[1].items) = 1

\* The place of a call of syncRatings in the order of its code.
RatingRank(line) ==
    CASE line = 203 -> 1
      [] line = 212 -> 2
      [] line = 222 -> 3
      [] line = 228 -> 4
      [] line = 237 -> 5
      [] line = 247 -> 6
      [] line = 281 -> 7

RatingOps == { "RatingsAdd", "RatingsRemove", "HistoryGet", "HistoryAdd", "HistoryRemove" }

\* C15 (order and count of rating writes): the calls of one syncRatings occur in
\* the order RatingsAdd of the additions, HistoryGet per added item, HistoryAdd,
\* RatingsRemove, HistoryGet per removed item, HistoryRemove, RatingsAdd of the
\* updates, each but HistoryGet at most once; so RatingsAdd is called at most
\* twice and RatingsRemove, HistoryAdd and HistoryRemove at most once; there are
\* at most as many HistoryGet calls as added and as removed items; no key is
\* sent both in the additions and in the updates.
C15_RatingWriteOrder ==
    /\ \A i \in DOMAIN calls : calls[i].op \in RatingOps <=> calls[i].line \in RatingLines
    /\ \A i, j \in DOMAIN calls :
          (i < j /\ calls[i].line \in RatingLines /\ calls[j].line \in RatingLines) =>
              \/ RatingRank(calls[i].line) < RatingRank(calls[j].line)
              \/ calls[i].line = calls[j].line /\ calls[i].line \in { 212, 237 }
    /\ Len(CallsOf("RatingsAdd")) <= 2
    /\ Len(CallsOf("RatingsRemove")) <= 1
    /\ Len(CallsOf("HistoryAdd")) <= 1
    /\ Len(CallsOf("HistoryRemove")) <= 1
    /\ Len(CallsAt(212)) <= Len(AddedRatings)
    /\ Len(CallsAt(237)) <= Len(RemovedRatings)
    /\ \A a \in Range(CallsAt(203)), u \in Range(CallsAt(281)) :
          /\ TraktKeys(a.items) \cap TraktKeys(u.items) = { }
          /\ \A x \in Range(a.items), y \in Range(u.items) : GetItemId(x) # GetItemId(y)

\* A run that reported success after all seven kinds of call.
C15_Witness ==
    /\ pc = "done"
    /\ \A line \in RatingLines : CallsAt(line) # << >>
    /\ Len(CallsOf("RatingsAdd")) = 2

\* The value of IMDB_LIST_IDS supplies no identifier: it is empty or "all".
NoneSupplied == listIdsString = << >> \/ listIdsString = << "a", "l", "l" >>

\* hydrate has chosen its mode and made the first call of it.
ModeChosen ==
    /\ pc \notin { "validate", "newImdbClient", "newTraktClient", "hydrate", "listsScrape" }
    /\ ~ (pc = "cleanup" /\ loc.k = 1)
    /\ ~ (pc = "fatal" /\ err.phase \in { "validate", "newImdbClient", "newTraktClient" })

SourceReads ==
    LET reads == SelectSeq(calls, LAMBDA c : c.svc = "imdb")
    IN  [ i \in DOMAIN reads |-> << reads[i].op, reads[i].arg >> ]

\* The source side of pairings: what they hold apart from the mirror's items.
SourceSide(dps) == [ i \in DOMAIN dps |-> [ dps[i] EXCEPT !.TraktList = << >> ] ]

\* The pairings of the identifiers that the source holds, in the order given.
RECURSIVE PairsOfIds(_)
PairsOfIds(ids) ==
    IF ids = << >> THEN << >>
    ELSE (IF Head(ids) \in DOMAIN imdb.lists THEN ScrapedPair(Head(ids)) ELSE << >>)
             \o PairsOfIds(Tail(ids))

\* What the first Run of a newly built Syncer reads from the source, and the
\* pairings it hydrates, with the configuration and the source as they are.
FirstRunSourceReads ==
    (IF NoneSupplied
        THEN << << "ListsScrape", << >> >> >>
        ELSE [ i \in DOMAIN FirstOccurrences(GivenIds) |->
                 << "ListItemsGet", << FirstOccurrences(GivenIds)[i] >> >> ])
    \o << << "WatchlistGet", << >> >>, << "RatingsGet", << >> >> >>
FirstRunPairings ==
    Append(IF NoneSupplied THEN ListsScrape ELSE PairsOfIds(FirstOccurrences(GivenIds)),
           WatchlistPair(WatchlistId, imdb.watchlist))

\* The Run of a newly built Syncer, once hydrated, has made exactly these reads
\* and holds exactly these pairings: they depend on the configuration and on the
\* source alone.
FirstRunHydration ==
    (fresh /\ Hydrated) =>
        /\ SourceReads = FirstRunSourceReads
        /\ SourceSide(user.lists) = FirstRunPairings

\* C17 (fresh state per run): every run, also a Run called a second time on the
\* same Syncer, has once hydrated made the source read calls and hydrated the
\* pairings of a first Run on a newly built Syncer with the same configuration
\* and the same source.
C17_SameAsFirstRun ==
    Hydrated =>
        /\ SourceReads = FirstRunSourceReads
        /\ SourceSide(user.lists) = FirstRunPairings

\* The run has ended: Run reported success, or the process ended in logger.Fatal.
Ended == pc \in { "done", "fatal" }

\* The number of pairings the Syncer held when hydrate started.
PairingsAtStart == IF fresh THEN Len(GivenIds) ELSE Len(FirstRunPairings)

\* The sizes that bound the calls of a run: the mirror lists ListsGet returned,
\* the additions and the removals of the ratings.
MirrorListCount == IF CallsAt(186) = << >> THEN 0 ELSE Len(CallsAt(186)[1].items)
RatingAdds == IF Hydrated THEN Len(OnlyInSource(user.ratings)) ELSE 0
RatingRemoves == IF Hydrated THEN Len(OnlyInMirror(user.ratings)) ELSE 0

\* The calls of the current run are bounded, family by family and in total.
CallsBounded ==
    /\ Len(CallsAt(298)) <= PairingsAtStart
    /\ Len(CallsAt(102)) + Len(CallsAt(108)) + Len(CallsAt(143)) + Len(CallsAt(147)) <= 4
    /\ Len(CallsAt(121)) + Len(CallsAt(128)) <= Len(user.lists)
    /\ Len(CallsAt(133)) <= Len(CallsAt(128))
    /\ Len(CallsAt(163)) + Len(CallsAt(175)) <= Len(user.lists)
    /\ Len(CallsAt(168)) + Len(CallsAt(180)) <= Len(user.lists)
    /\ Len(CallsAt(186)) <= 1
    /\ Len(CallsAt(192)) <= MirrorListCount
    /\ Len(CallsAt(203)) + Len(CallsAt(222)) + Len(CallsAt(228)) + Len(CallsAt(247))
           + Len(CallsAt(281)) <= 5
    /\ Len(CallsAt(212)) <= RatingAdds
    /\ Len(CallsAt(237)) <= RatingRemoves
    /\ Len(calls) <= PairingsAtStart + 4 * Len(user.lists) + MirrorListCount
                        + RatingAdds + RatingRemoves + 10

\* How a run ends: with success after hydrate, syncLists and syncRatings
\* returned nil, no call having failed; or in the function that met the first
\* error that is not silenced, that error being its last step.
EndsProperly ==
    /\ pc = "done" =>
          /\ err = NoErr
          /\ \A i \in DOMAIN calls : ~ Failed(calls[i])
          /\ Len(CallsAt(147)) = 1 /\ Len(CallsAt(186)) = 1
    /\ pc = "fatal" =>
          /\ err.phase \in { "validate", "newImdbClient", "newTraktClient", "hydrate",
                              "syncLists", "syncRatings" }
          /\ \A i \in 1..(Len(calls) - 1) : ~ Failed(calls[i])

\* C18 (termination): when every call returns, every run ends, by reporting
\* success after hydrate, syncLists and syncRatings returned nil or by ending at
\* the first error that is not silenced; the number of calls of a run is bounded
\* by the number of identifiers, of pairings, of mirror lists and of rating
\* additions and removals.
C18_Termination ==
    /\ \A r \in 1..MaxRuns : (run = r) ~> (run = r /\ Ended)
    /\ [](EndsProperly /\ CallsBounded)

\* The second run has reported success after at least twelve calls.
C18_Witness ==
    /\ run = 2
    /\ pc = "done"
    /\ Len(calls) >= 12

====
